---- MODULE Spec2Model ----
(***************************************************************************)
(* Model of the Telegram video relay of enhanced_video_bot.py: the URL     *)
(* classifier, the acquisition chain of EnhancedVideoDownloader, the       *)
(* splitter split_large_file, the workspace (temp_dir) and the handler     *)
(* download_video that sequences them.                                     *)
(*                                                                         *)
(* A URL is a sequence of tokens: the scheme ("https://"), then host       *)
(* tokens, then "/" or "?" and the tokens of the path and query.  str      *)
(* operations of the code (lower, startswith, `in`) act on the tokens.     *)
(* File sizes are byte counts; a file's content is the byte range of the   *)
(* acquired file it holds, [off, off + len).                               *)
(***************************************************************************)
EXTENDS Integers, Sequences, FiniteSets, TLC

MiB == 1024 * 1024

\* enhanced_video_bot.py:33-34
MAX_FILE_SIZE == 50 * MiB
CHUNK_SIZE == 1 * MiB

\* The largest whole-MiB size an acquired file takes in the model.
MaxSizeMiB == 120

(***************************************************************************)
(* URLs                                                                    *)
(***************************************************************************)
\* str.lower() on one token.
LowerTok(t) ==
    CASE t = "YouTube.COM" -> "youtube.com"
      [] t = "HTTPS://" -> "https://"
      [] OTHER -> t

lower(url) == [i \in 1..Len(url) |-> LowerTok(url[i])]

\* `x in s` for a token sequence s.
Contains(s, x) == \E i \in 1..Len(s) : s[i] = x

Delims == {"/", "?"}

\* Index of the first "/" or "?" after the scheme, Len+1 when there is none.
RECURSIVE FirstDelim(_, _)
FirstDelim(url, i) ==
    IF i > Len(url) THEN i
    ELSE IF url[i] \in Delims THEN i ELSE FirstDelim(url, i + 1)

\* urlparse raises ValueError("Invalid IPv6 URL") on an unbalanced bracket
\* in the host.
urlparse_raises(url) == Contains(SubSeq(url, 2, FirstDelim(url, 2) - 1), "[")

\* urlparse(url).netloc
netloc(url) == SubSeq(url, 2, FirstDelim(url, 2) - 1)

\* Line 532 with the test dropped.
startswith_http_Any(url) == TRUE

\* url.startswith(('http://', 'https://'))
startswith_http(url) == Len(url) >= 1 /\ url[1] \in {"http://", "https://"}

video_platforms ==
    { "youtube.com", "youtu.be", "vimeo.com", "dailymotion.com",
      "twitch.tv", "instagram.com", "tiktok.com", "twitter.com",
      "facebook.com", "reddit.com", "pinterest.com", "snapchat.com",
      "linkedin.com", "tumblr.com", "discord.com" }

is_video_platform(url) ==
    \E p \in video_platforms : Contains(netloc(lower(url)), p)

\* Lines 372-387 as the table they spell out, in the order of the tests.
PlatformTable ==
    << [tag |-> "youtube", entries |-> {"youtube.com", "youtu.be"}],
       [tag |-> "instagram", entries |-> {"instagram.com"}],
       [tag |-> "tiktok", entries |-> {"tiktok.com"}],
       [tag |-> "twitter", entries |-> {"twitter.com"}],
       [tag |-> "facebook", entries |-> {"facebook.com"}],
       [tag |-> "vimeo", entries |-> {"vimeo.com"}],
       [tag |-> "dailymotion", entries |-> {"dailymotion.com"}],
       [tag |-> "twitch", entries |-> {"twitch.tv"}] >>

\* Line 370 with the whole lowered URL searched, as line 198 does.
get_platform_type_WholeUrl(url) ==
    LET n == lower(url) IN
    IF \E k \in 1..Len(PlatformTable) :
          \E e \in PlatformTable[k].entries : Contains(n, e)
    THEN PlatformTable[CHOOSE k \in 1..Len(PlatformTable) :
            /\ \E e \in PlatformTable[k].entries : Contains(n, e)
            /\ \A j \in 1..(k - 1) :
                 ~ \E e \in PlatformTable[j].entries : Contains(n, e)].tag
    ELSE "other"

get_platform_type(url) ==
    LET n == netloc(lower(url)) IN
    IF Contains(n, "youtube.com") \/ Contains(n, "youtu.be") THEN "youtube"
    ELSE IF Contains(n, "instagram.com") THEN "instagram"
    ELSE IF Contains(n, "tiktok.com") THEN "tiktok"
    ELSE IF Contains(n, "twitter.com") THEN "twitter"
    ELSE IF Contains(n, "facebook.com") THEN "facebook"
    ELSE IF Contains(n, "vimeo.com") THEN "vimeo"
    ELSE IF Contains(n, "dailymotion.com") THEN "dailymotion"
    ELSE IF Contains(n, "twitch.tv") THEN "twitch"
    ELSE "other"

\* The messages the model feeds the handler: one URL per host token, and
\* URLs that carry a platform name outside the host, two names in the host,
\* a scheme the handler rejects, or a host urlparse rejects.
HostToks == video_platforms \cup {"example.com", "YouTube.COM"}

Urls ==
    { <<"https://", h, "/", "v">> : h \in HostToks }
    \cup { <<"https://", "example.com", "/", "clip.mp4">>,
           <<"https://", "example.com", "/", "instagram.com">>,
           <<"https://", "reddit.com", "/", "instagram.com">>,
           <<"https://", "youtube.com", "?", "instagram.com">>,
           <<"https://", "youtube.com", "instagram.com", "/", "v">>,
           <<"http://", "www.", "tiktok.com">>,
           <<"https://", "[", "/", "v">>,
           <<"HTTPS://", "youtube.com", "/", "v">>,
           <<"ftp://", "example.com", "/", "clip.mp4">>,
           <<"hello">> }

(***************************************************************************)
(* Files                                                                   *)
(***************************************************************************)
\* A file of the workspace: written under the name `base` (the strategy that
\* wrote it), part = -1 for a whole file and k for the part file _partk;
\* it holds bytes [off, off + len) of the acquired file.
WholeFile(b, n) == [base |-> b, part |-> -1, off |-> 0, len |-> n]
\* Line 252 with the source read from its start on every pass.
PartFile_FromStart(f, k, o, n) ==
    [base |-> f.base, part |-> k, off |-> 0, len |-> n]

PartFile(f, k, o, n) == [base |-> f.base, part |-> k, off |-> o, len |-> n]

NoFile == [base |-> "None", part |-> -1, off |-> 0, len |-> 0]

Min(a, b) == IF a < b THEN a ELSE b

\* The sizes a strategy's output takes: empty, tiny, at the ceiling, just
\* over it, and MaxSizeMiB.
FileSizes ==
    { 0, 1, MAX_FILE_SIZE, MAX_FILE_SIZE + 1, MaxSizeMiB * MiB }

(***************************************************************************)
(* split_large_file                                                        *)
(***************************************************************************)
\* The state of the loop at line 251: the read position, chunk_num, chunks,
\* and how the loop stands ("loop", "done" after the break, "raised").
SplitStart ==
    [pos |-> 0, chunk_num |-> 0, chunks |-> <<>>, status |-> "loop"]

\* Lines 252-261 with the loop left at the first short read, before the
\* short block is written.
SplitIter_DropShortRead(f, chunk_size, st, failAt) ==
    LET n == Min(chunk_size, f.len - st.pos) IN
    IF st.chunk_num \in failAt THEN [st EXCEPT !.status = "raised"]
    ELSE IF n < chunk_size THEN [st EXCEPT !.status = "done"]
    ELSE [pos |-> st.pos + n,
          chunk_num |-> st.chunk_num + 1,
          chunks |-> Append(st.chunks, PartFile(f, st.chunk_num, st.pos, n)),
          status |-> "loop"]

\* One pass of the while loop (lines 252-261) over file f; a pass whose
\* chunk_num is in failAt meets an I/O error at source.read.
SplitIter(f, chunk_size, st, failAt) ==
    LET n == Min(chunk_size, f.len - st.pos) IN
    IF st.chunk_num \in failAt THEN [st EXCEPT !.status = "raised"]
    ELSE IF n <= 0 THEN [st EXCEPT !.status = "done"]
    ELSE [pos |-> st.pos + n,
          chunk_num |-> st.chunk_num + 1,
          chunks |-> Append(st.chunks, PartFile(f, st.chunk_num, st.pos, n)),
          status |-> "loop"]

RECURSIVE SplitLoop(_, _, _, _)
SplitLoop(f, chunk_size, st, failAt) ==
    IF st.status # "loop" THEN st
    ELSE SplitLoop(f, chunk_size, SplitIter(f, chunk_size, st, failAt), failAt)

Range(s) == {s[i] : i \in 1..Len(s)}

\* What split_large_file returns from the loop's final state: the chunks,
\* or [file_path] from the except clause; `created` are the part files the
\* call leaves on disk.
SplitReturn(f, st) ==
    [chunks |-> IF st.status = "raised" THEN <<f>> ELSE st.chunks,
     created |-> Range(st.chunks)]

split_large_file(f, chunk_size, failAt) ==
    IF f.len <= MAX_FILE_SIZE
    THEN [chunks |-> <<f>>, created |-> {}]
    ELSE SplitReturn(f, SplitLoop(f, chunk_size, SplitStart, failAt))

\* The passes at which the model lets the split fail.
SplitFailPoints == {{}, {0}, {1}}

(***************************************************************************)
(* State                                                                   *)
(***************************************************************************)
VARIABLES
    pc,              \* where the handler download_video stands
    url,             \* update.message.text.strip()
    ws,              \* temp_dir: "none", "intact", "partial", "removed"
    files,           \* the files under temp_dir
    inProgress,      \* the strategies now running
    attempts,        \* the strategies finished so far, with their outcomes
    downloaded_file, \* downloaded_file of EnhancedVideoDownloader.download_video
    file_chunks,     \* file_chunks of the handler
    i,               \* the loop index of the handler's part loop
    sent,            \* the payloads the transport accepted, in order
    sendLog,         \* the parts handed to reply_video, in order
    status,          \* the texts sent through reply_text and edit_text
    exc,             \* the exception the handler's except clause is reporting
    cleanupCalls,    \* the calls of cleanup_all so far
    sp,              \* a call of split_large_file taken pass by pass
    thread,          \* the run whose handler holds the event loop's thread
    clock,           \* time.time() in whole seconds
    dirs,            \* the directories mkdtemp made that are still on disk
    runs             \* the handler invocations the event loop carries

LoopVars == << thread, clock, dirs, runs >>

vars == << pc, url, ws, files, inProgress, attempts, downloaded_file,
           file_chunks, i, sent, sendLog, status, exc, cleanupCalls, sp, LoopVars >>

\* How an await on the transport ends: it returns, it raises a transport
\* error, or the task is cancelled there (CancelledError).
AwaitOutcomes == {"ok", "error", "cancel"}

SpIdle == [f |-> NoFile, chunk_size |-> 0, failAt |-> {}, st |-> SplitStart,
           ret |-> <<>>]

\* No handler invocation is carried by the event loop.
LoopIdle ==
    /\ thread = "free"
    /\ clock = 0
    /\ dirs = {}
    /\ runs = <<>>

Init ==
    /\ pc = "idle"
    /\ url = <<>>
    /\ ws = "none"
    /\ files = {}
    /\ inProgress = {}
    /\ attempts = <<>>
    /\ downloaded_file = NoFile
    /\ file_chunks = <<>>
    /\ i = 0
    /\ sent = <<>>
    /\ sendLog = <<>>
    /\ status = <<>>
    /\ exc = "none"
    /\ cleanupCalls = 0
    /\ sp = SpIdle
    /\ LoopIdle

(***************************************************************************)
(* The workspace                                                           *)
(***************************************************************************)
\* cleanup_all, lines 391-398: rmtree when temp_dir exists; ok says whether
\* rmtree went through.  A failure is caught and logged, the tree stays.
cleanup_ws(w, ok) ==
    IF w \in {"intact", "partial"} THEN (IF ok THEN "removed" ELSE "partial")
    ELSE w

cleanup_files(w, fs, ok) ==
    IF w \in {"intact", "partial"} /\ ok THEN {} ELSE fs

\* Lines 391-398 without the try block: a failing rmtree leaves the call
\* as an exception.
cleanup_all_Uncaught(w, fs, ok) ==
    [ws |-> cleanup_ws(w, ok), files |-> cleanup_files(w, fs, ok),
     result |-> IF w \notin {"intact", "partial"} THEN "absent"
                ELSE IF ok THEN "removed" ELSE "raised"]

\* cleanup_all as a call, lines 391-398: the tree and its files afterwards,
\* and how the call went: nothing was there, rmtree removed the tree, or
\* rmtree raised and the except clause logged it.
cleanup_all(w, fs, ok) ==
    [ws |-> cleanup_ws(w, ok), files |-> cleanup_files(w, fs, ok),
     result |-> IF w \notin {"intact", "partial"} THEN "absent"
                ELSE IF ok THEN "removed" ELSE "logged"]

\* Lines 655-660 without the finally clause.
Finally_NoCleanup(w, fs, calls, ok, nextpc) ==
    /\ ws' = w
    /\ files' = fs
    /\ cleanupCalls' = calls
    /\ pc' = nextpc

\* The finally clause, lines 655-660: one more call of cleanup_all.
Finally(w, fs, calls, ok, nextpc) ==
    /\ ws' = cleanup_ws(w, ok)
    /\ files' = cleanup_files(w, fs, ok)
    /\ cleanupCalls' = calls + 1
    /\ pc' = nextpc

\* An exception of class Exception raised inside the try block: the clause
\* at line 648 edits the status message to the failure text and waits.
ToExcept(e) ==
    /\ pc' = "await_fail_msg"
    /\ exc' = e

\* How the handler leaves when an await inside the try block does not
\* return: a transport error goes to the except clause, a cancellation
\* straight to the finally clause.
Raises(o, ok, e) ==
    IF o = "error"
    THEN /\ ToExcept(e)
         /\ UNCHANGED << ws, files, cleanupCalls >>
    ELSE /\ Finally(ws, files, cleanupCalls, ok, "cancelled")
         /\ UNCHANGED exc

\* An await of reply_text or edit_text does not return.
AwaitFails(o, ok) == Raises(o, ok, "TransportError")

\* An await of reply_video does not return: the transport rejected the
\* payload (lines 591-596 and 614-618), or the task was cancelled.
SendFails(o, ok) == Raises(o, ok, "SendRejected")

\* The class of each exception the try block raises: urlparse's ValueError,
\* the transport's TelegramError, and the plain Exception of lines 308-312.
\* None is a CalledProcessError (subprocess.run is called without check)
\* or a RequestException (download_direct catches its own).
ExcClass(e) ==
    CASE e = "ValueError" -> "ValueError"
      [] e \in {"TransportError", "SendRejected"} -> "TelegramError"
      [] OTHER -> "Exception"

\* Lines 634-653: the text the except clauses put in the status message;
\* `detail` is the str(e) that the last clause writes into it.
FailureText(e) ==
    CASE ExcClass(e) = "CalledProcessError"
           -> [kind |-> "failed_platform", detail |-> "none"]
      [] ExcClass(e) = "RequestException"
           -> [kind |-> "failed_network", detail |-> "none"]
      [] OTHER -> [kind |-> "failed", detail |-> e]

Shown(kind) == Append(status, [kind |-> kind, detail |-> "none"])

(***************************************************************************)
(* The handler, up to the acquisition                                      *)
(***************************************************************************)
\* Lines 527-543: the URL check, the construction of the downloader (the
\* workspace is created), and the first reply is started.
Receive(u) ==
    /\ pc = "idle"
    /\ url' = u
    /\ IF ~startswith_http(u)
       THEN /\ pc' = "await_invalid_reply"
            /\ ws' = ws
       ELSE /\ pc' = "await_analyzing"
            /\ ws' = "intact"
    /\ UNCHANGED << files, inProgress, attempts, downloaded_file, file_chunks,
                    i, sent, sendLog, status, exc, cleanupCalls, sp, LoopVars >>

\* Lines 533-536: the reply to a message that is no HTTP(S) URL.
AwaitInvalidReply(o) ==
    /\ pc = "await_invalid_reply"
    /\ pc' = CASE o = "ok" -> "returned"
               [] o = "error" -> "raised"
               [] OTHER -> "cancelled"
    /\ status' = IF o = "ok" THEN Shown("invalid_url") ELSE status
    /\ UNCHANGED << url, ws, files, inProgress, attempts, downloaded_file,
                    file_chunks, i, sent, sendLog, exc, cleanupCalls, sp, LoopVars >>

\* Lines 541-558: the "Analyzing URL" reply is awaited outside the try
\* block; when it returns, the filename and platform are worked out
\* (urlparse may raise) and the "Downloading" edit is started.
AwaitAnalyzing(o) ==
    /\ pc = "await_analyzing"
    /\ IF o = "ok"
       THEN /\ status' = Shown("analyzing")
            /\ IF urlparse_raises(url)
               THEN ToExcept("ValueError")
               ELSE pc' = "await_downloading" /\ exc' = exc
       ELSE /\ pc' = (IF o = "error" THEN "raised" ELSE "cancelled")
            /\ UNCHANGED << status, exc >>
    /\ UNCHANGED << url, ws, files, inProgress, attempts, downloaded_file,
                    file_chunks, i, sent, sendLog, cleanupCalls, sp, LoopVars >>

\* Lines 554-561 and 273-280: the "Downloading" edit returns and
\* downloader.download_video is entered.
AwaitDownloading(o) ==
    /\ pc = "await_downloading"
    /\ \E ok \in BOOLEAN :
         IF o = "ok"
         THEN /\ pc' = "c_m1"
              /\ status' = Shown("downloading")
              /\ UNCHANGED << ws, files, exc, cleanupCalls >>
         ELSE /\ AwaitFails(o, ok)
              /\ status' = status
    /\ UNCHANGED << url, inProgress, attempts, downloaded_file, file_chunks,
                    i, sent, sendLog, sp, LoopVars >>

(***************************************************************************)
(* The acquisition chain, EnhancedVideoDownloader.download_video           *)
(***************************************************************************)
Strategies == <<"ytdlp", "youtubedl", "instaloader", "enhanced", "direct">>

\* What a downloader process does: the tool is not installed (the version
\* probe raises FileNotFoundError), the version probe fails, or the real
\* invocation exits non-zero, runs out of its 300 s, or exits 0; `wrote` is
\* the size of the video file it left in download_dir, -1 for none.
ProcOutcomes ==
    { [exit |-> "probe_missing", wrote |-> 0 - 1],
      [exit |-> "probe_fail", wrote |-> 0 - 1],
      [exit |-> "nonzero", wrote |-> 0 - 1],
      [exit |-> "nonzero", wrote |-> 1],
      [exit |-> "timeout", wrote |-> 0 - 1],
      [exit |-> "exit0", wrote |-> 0 - 1] }
    \cup { [exit |-> "exit0", wrote |-> n] : n \in FileSizes }

\* What an HTTP fetch does: requests.get raises, raise_for_status raises,
\* the stream breaks after the file was opened, or the body of `wrote`
\* bytes is written out.
HttpOutcomes ==
    { [exit |-> "conn_error", wrote |-> 0 - 1],
      [exit |-> "http_error", wrote |-> 0 - 1],
      [exit |-> "stream_error", wrote |-> 1] }
    \cup { [exit |-> "ok", wrote |-> n] : n \in FileSizes }

\* The files on disk once the strategy named b has run with outcome o.
Written(fs, b, o) ==
    IF o.wrote >= 0
    THEN {f \in fs : f.base # b} \cup {WholeFile(b, o.wrote)}
    ELSE fs

\* download_with_ytdlp, download_with_youtubedl, download_with_instaloader:
\* the files the call may return.  On exit 0 the first entry of
\* os.listdir(output_dir) with a video extension, in whatever order the
\* directory lists them; otherwise None.
ProcResults(fs, b, o) ==
    IF o.exit = "exit0" /\ Written(fs, b, o) # {}
    THEN Written(fs, b, o)
    ELSE {NoFile}

\* download_direct and download_direct_with_enhanced_headers: output_path
\* once the body is written, None from the except clause.
HttpResult(b, o) ==
    IF o.exit = "ok" THEN WholeFile(b, o.wrote) ELSE NoFile

\* `if result:` / `if not downloaded_file`: a path is truthy, None is not.
Truthy(f) == f # NoFile

\* os.path.exists
Exists(fs, f) == \E g \in fs : g.base = f.base /\ g.part = f.part

\* urlparse(url).path: from the first "/" up to the query.
RECURSIVE FirstQuery(_, _)
FirstQuery(u, k) ==
    IF k > Len(u) THEN k
    ELSE IF u[k] = "?" THEN k ELSE FirstQuery(u, k + 1)

path(u) == SubSeq(u, FirstDelim(u, 2), FirstQuery(u, 2) - 1)

\* The tokens that end in one of the video extensions of line 46.
VideoFileToks == {"clip.mp4"}

\* is_video_url, lines 44-62: a platform host or a video file extension.
is_video_url(u) ==
    \/ \E p \in video_platforms : Contains(netloc(lower(u)), p)
    \/ (path(lower(u)) # <<>>
        /\ path(lower(u))[Len(path(lower(u)))] \in VideoFileToks)

\* Line 283 with is_video_url called in place of is_video_platform.
TriesPlatform_AnyVideoUrl(u) == is_video_url(u)

\* Line 283: Method 1 runs for a video platform.
TriesPlatform(u) == is_video_platform(u)

\* Line 198: instaloader runs when the URL text holds 'instagram.com'.
TriesInstaloader(u) == Contains(lower(u), "instagram.com")

\* Lines 288-292 without the platform_type test of line 292.
TriesEnhanced_AnyPlatform(u, df) == ~Truthy(df) /\ is_video_platform(u)

\* Lines 288 and 292: the enhanced-header fetch.
TriesEnhanced(u, df) ==
    /\ ~Truthy(df)
    /\ is_video_platform(u)
    /\ get_platform_type(u) \in {"youtube", "instagram", "tiktok"}

\* Line 300 with the test dropped, and with the test inverted.
TriesDirect_Always(df) == TRUE
TriesDirect_Inverted(df) == Truthy(df)

\* Line 300: the plain direct fetch.
TriesDirect(df) == ~Truthy(df)

\* Line 305 with the test dropped.
AcquiredOk_Unchecked(df, fs) == TRUE

\* Line 305: what download_video returns instead of raising.
AcquiredOk(df, fs) == Truthy(df) /\ Exists(fs, df)

ChainFrame == << url, ws, file_chunks, i, sent, sendLog, status, exc,
                 cleanupCalls, sp, LoopVars >>

Start(b, nextpc) ==
    /\ inProgress' = inProgress \cup {b}
    /\ pc' = nextpc
    /\ UNCHANGED << files, attempts, downloaded_file >>

Skip(nextpc) ==
    /\ pc' = nextpc
    /\ UNCHANGED << files, attempts, downloaded_file, inProgress >>

\* Lines 105-107 with a timeout leaving download_video through its outer
\* except clause.
AfterProc_TimeoutRaises(o, r, pcHit, pcMiss) ==
    IF o.exit = "timeout" THEN "c_check"
    ELSE IF Truthy(r) THEN pcHit ELSE pcMiss

\* Lines 82-107 and 284-288: every way a downloader fails ends in
\* `return None`, and the caller goes on to pcMiss; a path goes to pcHit.
AfterProc(o, r, pcHit, pcMiss) == IF Truthy(r) THEN pcHit ELSE pcMiss

\* A downloader process ends: the caller takes the result when it is
\* truthy and goes to pcHit, else goes on to pcMiss.
FinishProc(b, pcHit, pcMiss) ==
    \E o \in ProcOutcomes : \E r \in ProcResults(files, b, o) :
        /\ files' = Written(files, b, o)
        /\ attempts' = Append(attempts, [name |-> b, exit |-> o.exit, result |-> r])
        /\ inProgress' = inProgress \ {b}
        /\ downloaded_file' = r
        /\ pc' = AfterProc(o, r, pcHit, pcMiss)

FinishHttp(b, nextpc) ==
    \E o \in HttpOutcomes :
        /\ files' = Written(files, b, o)
        /\ attempts' = Append(attempts, [name |-> b, exit |-> o.exit,
                                         result |-> HttpResult(b, o)])
        /\ inProgress' = inProgress \ {b}
        /\ downloaded_file' = HttpResult(b, o)
        /\ pc' = nextpc

Start_ytdlp ==
    /\ pc = "c_m1" /\ TriesPlatform(url)
    /\ Start("ytdlp", "run_ytdlp") /\ UNCHANGED ChainFrame

Skip_platform ==
    /\ pc = "c_m1" /\ ~TriesPlatform(url)
    /\ Skip("c_m2") /\ UNCHANGED ChainFrame

Finish_ytdlp ==
    /\ pc = "run_ytdlp"
    /\ FinishProc("ytdlp", "c_m2", "c_ydl") /\ UNCHANGED ChainFrame

Start_youtubedl ==
    /\ pc = "c_ydl"
    /\ Start("youtubedl", "run_youtubedl") /\ UNCHANGED ChainFrame

Finish_youtubedl ==
    /\ pc = "run_youtubedl"
    /\ FinishProc("youtubedl", "c_m2", "c_insta") /\ UNCHANGED ChainFrame

Start_instaloader ==
    /\ pc = "c_insta" /\ TriesInstaloader(url)
    /\ Start("instaloader", "run_instaloader") /\ UNCHANGED ChainFrame

Skip_instaloader ==
    /\ pc = "c_insta" /\ ~TriesInstaloader(url)
    /\ Skip("c_m2") /\ UNCHANGED ChainFrame

Finish_instaloader ==
    /\ pc = "run_instaloader"
    /\ FinishProc("instaloader", "c_m2", "c_m2") /\ UNCHANGED ChainFrame

Start_enhanced ==
    /\ pc = "c_m2" /\ TriesEnhanced(url, downloaded_file)
    /\ Start("enhanced", "run_enhanced") /\ UNCHANGED ChainFrame

Skip_enhanced ==
    /\ pc = "c_m2" /\ ~TriesEnhanced(url, downloaded_file)
    /\ Skip("c_m3") /\ UNCHANGED ChainFrame

Finish_enhanced ==
    /\ pc = "run_enhanced"
    /\ FinishHttp("enhanced", "c_m3") /\ UNCHANGED ChainFrame

Start_direct ==
    /\ pc = "c_m3" /\ TriesDirect(downloaded_file)
    /\ Start("direct", "run_direct") /\ UNCHANGED ChainFrame

Skip_direct ==
    /\ pc = "c_m3" /\ ~TriesDirect(downloaded_file)
    /\ Skip("c_check") /\ UNCHANGED ChainFrame

Finish_direct ==
    /\ pc = "run_direct"
    /\ FinishHttp("direct", "c_check") /\ UNCHANGED ChainFrame

\* Lines 76, 113 and 150: the version probe is run without a timeout, so a
\* tool that never exits keeps subprocess.run, and the handler with it,
\* waiting for good.
ProbeHangs ==
    /\ pc \in {"run_ytdlp", "run_youtubedl", "run_instaloader"}
    /\ pc' = "probe_hung"
    /\ UNCHANGED << files, attempts, downloaded_file, inProgress >>
    /\ UNCHANGED ChainFrame

(***************************************************************************)
(* The handler, from the acquired file on                                  *)
(***************************************************************************)
\* Line 577 with the second argument left to its default.
SplitChunkArg_Default == CHUNK_SIZE

\* The chunk size the handler hands to split_large_file, line 577.
SplitChunkArg == MAX_FILE_SIZE

\* Line 571 with the ceiling itself sent through the part loop.
NeedsSplit_AtCeiling(f) == f.len >= MAX_FILE_SIZE

\* Line 571: the file goes through the part loop.
NeedsSplit(f) == f.len > MAX_FILE_SIZE

\* Line 580 walking the list from its end.
ChunkAt_Reversed(chunks, k) == chunks[Len(chunks) - k]

\* Line 580: enumerate(file_chunks) pairs index k with the k-th path.
ChunkAt(chunks, k) == chunks[k + 1]

\* Lines 305-312 and 561-575 or 609: download_video returns the file or
\* raises; the handler starts the "splitting" or the "Sending" edit.
ChainReturn ==
    /\ pc = "c_check"
    /\ IF AcquiredOk(downloaded_file, files)
       THEN /\ pc' = IF NeedsSplit(downloaded_file)
                     THEN "await_split_msg" ELSE "await_single_msg"
            /\ exc' = exc
       ELSE ToExcept("AllMethodsFailed")
    /\ UNCHANGED << url, ws, files, inProgress, attempts, downloaded_file,
                    file_chunks, i, sent, sendLog, status, cleanupCalls, sp, LoopVars >>

\* Lines 572-584: the "splitting" edit returns, the file is split and the
\* status edit of the first part is started.
AwaitSplitMsg(o) ==
    /\ pc = "await_split_msg"
    /\ \E ok \in BOOLEAN : \E failAt \in SplitFailPoints :
         IF o = "ok"
         THEN LET r == split_large_file(downloaded_file, SplitChunkArg, failAt) IN
              /\ file_chunks' = r.chunks
              /\ files' = files \cup r.created
              /\ i' = 0
              /\ pc' = IF Len(r.chunks) > 0
                       THEN "await_part_msg" ELSE "await_completed_msg"
              /\ status' = Shown("splitting")
              /\ UNCHANGED << ws, exc, cleanupCalls >>
         ELSE /\ AwaitFails(o, ok)
              /\ UNCHANGED << file_chunks, i, status >>
    /\ UNCHANGED << url, inProgress, attempts, downloaded_file, sent, sendLog, sp, LoopVars >>

\* Lines 581-596: the status edit of part i returns; the part is opened
\* and handed to reply_video.
AwaitPartMsg(o) ==
    /\ pc = "await_part_msg"
    /\ \E ok \in BOOLEAN :
         IF o = "ok"
         THEN /\ sendLog' = Append(sendLog, ChunkAt(file_chunks, i))
              /\ pc' = "await_part_send"
              /\ status' = Shown("sending_part")
              /\ UNCHANGED << ws, files, exc, cleanupCalls >>
         ELSE /\ AwaitFails(o, ok)
              /\ UNCHANGED << sendLog, status >>
    /\ UNCHANGED << url, inProgress, attempts, downloaded_file, file_chunks,
                    i, sent, sp, LoopVars >>

\* Lines 590-606: reply_video of part i returns; the part file is removed
\* and the loop sleeps before the next part or ends, starting the
\* "Download completed" edit.
AwaitPartSend(o) ==
    /\ pc = "await_part_send"
    /\ \E ok \in BOOLEAN :
         IF o = "ok"
         THEN /\ sent' = Append(sent, ChunkAt(file_chunks, i))
              /\ files' = {f \in files :
                              ~(f.base = ChunkAt(file_chunks, i).base
                                /\ f.part = ChunkAt(file_chunks, i).part)}
              /\ pc' = IF i < Len(file_chunks) - 1
                       THEN "await_sleep" ELSE "await_completed_msg"
              /\ UNCHANGED << ws, exc, cleanupCalls >>
         ELSE /\ SendFails(o, ok)
              /\ sent' = sent
    /\ UNCHANGED << url, inProgress, attempts, downloaded_file, file_chunks,
                    i, sendLog, status, sp, LoopVars >>

\* Line 606 and back to 580: asyncio.sleep(1) returns, or the task is
\* cancelled in it.
AwaitSleep(o) ==
    /\ pc = "await_sleep"
    /\ o # "error"
    /\ \E ok \in BOOLEAN :
         IF o = "ok"
         THEN /\ i' = i + 1
              /\ pc' = "await_part_msg"
              /\ UNCHANGED << ws, files, exc, cleanupCalls >>
         ELSE /\ AwaitFails(o, ok)
              /\ i' = i
    /\ UNCHANGED << url, inProgress, attempts, downloaded_file, file_chunks,
                    sent, sendLog, status, sp, LoopVars >>

\* Lines 609-618: the "Sending" edit returns and the whole file is handed
\* to reply_video.
AwaitSingleMsg(o) ==
    /\ pc = "await_single_msg"
    /\ \E ok \in BOOLEAN :
         IF o = "ok"
         THEN /\ sendLog' = Append(sendLog, downloaded_file)
              /\ pc' = "await_single_send"
              /\ status' = Shown("sending")
              /\ UNCHANGED << ws, files, exc, cleanupCalls >>
         ELSE /\ AwaitFails(o, ok)
              /\ UNCHANGED << sendLog, status >>
    /\ UNCHANGED << url, inProgress, attempts, downloaded_file, file_chunks,
                    i, sent, sp, LoopVars >>

\* Lines 614-624: reply_video of the whole file returns and the "Download
\* completed" edit is started.
AwaitSingleSend(o) ==
    /\ pc = "await_single_send"
    /\ \E ok \in BOOLEAN :
         IF o = "ok"
         THEN /\ sent' = Append(sent, downloaded_file)
              /\ pc' = "await_completed_msg"
              /\ UNCHANGED << ws, files, exc, cleanupCalls >>
         ELSE /\ SendFails(o, ok)
              /\ sent' = sent
    /\ UNCHANGED << url, inProgress, attempts, downloaded_file, file_chunks,
                    i, sendLog, status, sp, LoopVars >>

\* Lines 620-632 and 655-660: the "Download completed" edit returns; the
\* final cleanup removes the file and calls cleanup_all, and the finally
\* clause calls cleanup_all again.
AwaitCompletedMsg(o) ==
    /\ pc = "await_completed_msg"
    /\ \E ok1, ok2 \in BOOLEAN :
         IF o = "ok"
         THEN LET fs1 == {f \in files : ~(f.base = downloaded_file.base
                                          /\ f.part = downloaded_file.part)}
                  w1 == cleanup_ws(ws, ok1)
                  fs2 == cleanup_files(ws, fs1, ok1)
              IN  /\ Finally(w1, fs2, cleanupCalls + 1, ok2, "returned")
                  /\ status' = Shown("completed")
                  /\ exc' = exc
         ELSE /\ AwaitFails(o, ok1)
              /\ status' = status
    /\ UNCHANGED << url, inProgress, attempts, downloaded_file, file_chunks,
                    i, sent, sendLog, sp, LoopVars >>

\* Lines 648-660: the failure edit of the except clause returns or fails,
\* and the finally clause calls cleanup_all.
AwaitFailMsg(o) ==
    /\ pc = "await_fail_msg"
    /\ \E ok \in BOOLEAN :
         Finally(ws, files, cleanupCalls, ok,
                 CASE o = "ok" -> "returned"
                   [] o = "error" -> "raised"
                   [] OTHER -> "cancelled")
    /\ status' = IF o = "ok"
                 THEN Append(status, FailureText(exc))
                 ELSE status
    /\ UNCHANGED << url, inProgress, attempts, downloaded_file, file_chunks,
                    i, sent, sendLog, exc, sp, LoopVars >>

Await ==
    \E o \in AwaitOutcomes :
        \/ AwaitInvalidReply(o)
        \/ AwaitAnalyzing(o)
        \/ AwaitDownloading(o)
        \/ AwaitSplitMsg(o)
        \/ AwaitPartMsg(o)
        \/ AwaitPartSend(o)
        \/ AwaitSleep(o)
        \/ AwaitSingleMsg(o)
        \/ AwaitSingleSend(o)
        \/ AwaitCompletedMsg(o)
        \/ AwaitFailMsg(o)

Chain ==
    \/ Start_ytdlp \/ Skip_platform \/ Finish_ytdlp
    \/ Start_youtubedl \/ Finish_youtubedl
    \/ Start_instaloader \/ Skip_instaloader \/ Finish_instaloader
    \/ Start_enhanced \/ Skip_enhanced \/ Finish_enhanced
    \/ Start_direct \/ Skip_direct \/ Finish_direct
    \/ ChainReturn
    \/ ProbeHangs

Next ==
    \/ \E u \in Urls : Receive(u)
    \/ Await
    \/ Chain

Spec == Init /\ [][Next]_vars

\* The event loop resumes the handler when the call it waits on has ended,
\* and a process that exits or is cut off by its timeout ends the call.
SpecLive == Init /\ [][Next]_vars /\ WF_vars(Next)

(***************************************************************************)
(* split_large_file on its own, pass by pass                               *)
(***************************************************************************)
\* The sizes and chunk sizes the calls are made with.
SplitSizes ==
    { 1, MAX_FILE_SIZE, MAX_FILE_SIZE + 1, MAX_FILE_SIZE + CHUNK_SIZE,
      2 * MAX_FILE_SIZE, MaxSizeMiB * MiB, MaxSizeMiB * MiB + MiB \div 2 }

SplitChunks ==
    { CHUNK_SIZE, MAX_FILE_SIZE, 7 * MiB + 1, MaxSizeMiB * MiB, 3 * MAX_FILE_SIZE }

InitSplit ==
    /\ pc = "split_call"
    /\ url = <<>>
    /\ ws = "intact"
    /\ inProgress = {}
    /\ attempts = <<>>
    /\ downloaded_file = NoFile
    /\ file_chunks = <<>>
    /\ i = 0
    /\ sent = <<>>
    /\ sendLog = <<>>
    /\ status = <<>>
    /\ exc = "none"
    /\ cleanupCalls = 0
    /\ LoopIdle
    /\ \E n \in SplitSizes, c \in SplitChunks, fa \in SplitFailPoints :
         /\ files = {WholeFile("direct", n)}
         /\ sp = [f |-> WholeFile("direct", n), chunk_size |-> c,
                  failAt |-> fa, st |-> SplitStart, ret |-> <<>>]

SplitFrame == << url, ws, inProgress, attempts, downloaded_file, file_chunks,
                i, sent, sendLog, status, exc, cleanupCalls, LoopVars >>

\* Lines 241-250: the size test; a file at or under the ceiling is
\* returned as it is, a larger one enters the loop.
SplitEnter ==
    /\ pc = "split_call"
    /\ IF sp.f.len <= MAX_FILE_SIZE
       THEN /\ sp' = [sp EXCEPT !.ret = <<sp.f>>]
            /\ pc' = "split_returned"
       ELSE /\ sp' = sp
            /\ pc' = "split_loop"
    /\ UNCHANGED files
    /\ UNCHANGED SplitFrame

\* Lines 251-261: one pass of the loop; the part file it writes appears.
SplitPass ==
    /\ pc = "split_loop"
    /\ sp.st.status = "loop"
    /\ LET st2 == SplitIter(sp.f, sp.chunk_size, sp.st, sp.failAt) IN
         /\ sp' = [sp EXCEPT !.st = st2]
         /\ files' = files \cup Range(st2.chunks)
    /\ pc' = pc
    /\ UNCHANGED SplitFrame

\* Lines 263-268: the return after the loop, or from the except clause.
SplitExit ==
    /\ pc = "split_loop"
    /\ sp.st.status # "loop"
    /\ sp' = [sp EXCEPT !.ret = SplitReturn(sp.f, sp.st).chunks]
    /\ pc' = "split_returned"
    /\ UNCHANGED files
    /\ UNCHANGED SplitFrame

NextSplit == SplitEnter \/ SplitPass \/ SplitExit

SpecSplit == InitSplit /\ [][NextSplit]_vars

(***************************************************************************)
(* cleanup_all on its own, call after call                                 *)
(***************************************************************************)
MaxCleanupCalls == 3

\* The files a workspace may hold when cleanup_all is called.
CleanupFiles ==
    { WholeFile("ytdlp", 1), WholeFile("direct", MaxSizeMiB * MiB),
      PartFile(WholeFile("direct", MaxSizeMiB * MiB), 0, 0, MAX_FILE_SIZE),
      PartFile(WholeFile("direct", MaxSizeMiB * MiB), 1, MAX_FILE_SIZE,
               MAX_FILE_SIZE),
      WholeFile("enhanced", 0) }

\* The workspace is intact, partly removed or already removed; status is
\* the record of the calls made, exc the exception a call let out.
InitCleanup ==
    /\ pc = "cleanup_idle"
    /\ url = <<>>
    /\ ws \in {"intact", "partial", "removed"}
    /\ files \in (IF ws = "removed" THEN {{}} ELSE SUBSET CleanupFiles)
    /\ inProgress = {}
    /\ attempts = <<>>
    /\ downloaded_file = NoFile
    /\ file_chunks = <<>>
    /\ i = 0
    /\ sent = <<>>
    /\ sendLog = <<>>
    /\ status = <<>>
    /\ exc = "none"
    /\ cleanupCalls = 0
    /\ sp = SpIdle
    /\ LoopIdle

\* One call of cleanup_all, lines 391-398.
CleanupCall ==
    /\ pc = "cleanup_idle"
    /\ cleanupCalls < MaxCleanupCalls
    /\ \E ok \in BOOLEAN :
         LET r == cleanup_all(ws, files, ok) IN
           /\ ws' = r.ws
           /\ files' = r.files
           /\ exc' = IF r.result = "raised" THEN "OSError" ELSE "none"
           /\ status' = Append(status, [kind |-> "cleanup_all",
                                        detail |-> r.result])
    /\ cleanupCalls' = cleanupCalls + 1
    /\ UNCHANGED << pc, url, inProgress, attempts, downloaded_file,
                    file_chunks, i, sent, sendLog, sp, LoopVars >>

NextCleanup == CleanupCall

SpecCleanup == InitCleanup /\ [][NextCleanup]_vars

(***************************************************************************)
(* get_platform_type on its own                                            *)
(***************************************************************************)
MaxHostToks == 2

\* The hosts of up to n tokens.
RECURSIVE HostSeqs(_)
HostSeqs(n) ==
    IF n = 0 THEN {<<>>}
    ELSE HostSeqs(n - 1)
         \cup {Append(h, t) : h \in HostSeqs(n - 1), t \in HostToks \cup {"www."}}

ClassifySchemes == {"https://", "http://", "HTTPS://"}

\* What follows the host: nothing, a path, a path or a query that spells a
\* platform name.
ClassifyTails ==
    {<<>>, <<"/", "v">>, <<"/", "instagram.com">>, <<"?", "youtube.com">>}

ClassifyUrls ==
    {<<sc>> \o h \o t :
        sc \in ClassifySchemes, h \in HostSeqs(MaxHostToks), t \in ClassifyTails}

InitClassify ==
    /\ pc = "classify_call"
    /\ url \in ClassifyUrls
    /\ ws = "none"
    /\ files = {}
    /\ inProgress = {}
    /\ attempts = <<>>
    /\ downloaded_file = NoFile
    /\ file_chunks = <<>>
    /\ i = 0
    /\ sent = <<>>
    /\ sendLog = <<>>
    /\ status = <<>>
    /\ exc = "none"
    /\ cleanupCalls = 0
    /\ sp = SpIdle
    /\ LoopIdle

\* One call of get_platform_type, lines 367-389; status takes the tag.
Classify ==
    /\ pc = "classify_call"
    /\ pc' = "classified"
    /\ status' = << [kind |-> "platform_type",
                     detail |-> get_platform_type(url)] >>
    /\ UNCHANGED << url, ws, files, inProgress, attempts, downloaded_file,
                    file_chunks, i, sent, sendLog, exc, cleanupCalls, sp, LoopVars >>

NextClassify == Classify

SpecClassify == InitClassify /\ [][NextClassify]_vars

(***************************************************************************)
(* Several handler invocations on the one thread of the event loop.  Each  *)
(* invocation is the coroutine download_video; a coroutine gives up the    *)
(* thread at an await and at nothing else, and one whose await has ended   *)
(* resumes when the thread is free.  Here thread is 0 when free, files     *)
(* are records [dir, sec, base, run], and a directory or second not yet    *)
(* set is -1.                                                              *)
(***************************************************************************)
NumRuns == 2
MaxClock == 1

\* The names mkdtemp draws from; more than the runs can hold at once.
TempNames == 0..NumRuns

\* Lines 38-42 with the directory named after the clock.
NewWorkspace_ByClock(existing, now) == {now}

\* tempfile.mkdtemp(), line 39: a directory that did not exist.
NewWorkspace(existing, now) == TempNames \ existing

QueuedRun == [pc |-> "queued", temp_dir |-> 0 - 1, download_dir |-> 0 - 1]

InitLoop ==
    /\ pc = "loop"
    /\ url = <<>>
    /\ ws = "none"
    /\ files = {}
    /\ inProgress = {}
    /\ attempts = <<>>
    /\ downloaded_file = NoFile
    /\ file_chunks = <<>>
    /\ i = 0
    /\ sent = <<>>
    /\ sendLog = <<>>
    /\ status = <<>>
    /\ exc = "none"
    /\ cleanupCalls = 0
    /\ sp = SpIdle
    /\ thread = 0
    /\ clock = 0
    /\ dirs = {}
    /\ runs = [r \in 1..NumRuns |-> QueuedRun]

LoopFrame == << pc, url, ws, inProgress, attempts, downloaded_file,
                file_chunks, i, sent, sendLog, status, exc, cleanupCalls, sp >>

\* cleanup_all of run r, lines 391-398: rmtree(self.temp_dir), which may
\* fail and leave the tree.
LoopCleanup(r, ok) ==
    /\ dirs' = IF ok THEN dirs \ {runs[r].temp_dir} ELSE dirs
    /\ files' = IF ok THEN {f \in files : f.dir # runs[r].temp_dir} ELSE files

\* The finally clause of run r ends the invocation.
LoopEnd(r, ok) ==
    /\ LoopCleanup(r, ok)
    /\ runs' = [runs EXCEPT ![r].pc = "done"]

\* An await inside the try block of run r does not return.
LoopFails(r, o, ok) ==
    IF o = "error"
    THEN /\ runs' = [runs EXCEPT ![r].pc = "await_fail_msg"]
         /\ UNCHANGED << dirs, files >>
    ELSE LoopEnd(r, ok)

\* Lines 525-543: the handler starts for a message that is a URL, makes its
\* downloader and workspace, and awaits the first reply.
LoopReceive(r) ==
    /\ thread = 0
    /\ runs[r].pc = "queued"
    /\ \E d \in NewWorkspace(dirs, clock) :
         /\ dirs' = dirs \cup {d}
         /\ runs' = [runs EXCEPT ![r] = [pc |-> "await_analyzing",
                                         temp_dir |-> d,
                                         download_dir |-> 0 - 1]]
    /\ UNCHANGED << thread, clock, files >>
    /\ UNCHANGED LoopFrame

\* Lines 541-558: the first reply, awaited outside the try block, returns
\* and the "Downloading" edit is awaited, or the handler is left.
LoopAnalyzed(r, o) ==
    /\ thread = 0
    /\ runs[r].pc = "await_analyzing"
    /\ runs' = [runs EXCEPT ![r].pc =
                   IF o = "ok" THEN "await_downloading" ELSE "done"]
    /\ UNCHANGED << thread, clock, dirs, files >>
    /\ UNCHANGED LoopFrame

\* Lines 561, 273-274 and 91 or 214: downloader.download_video is called,
\* not awaited; it names download_dir after the clock and sits in
\* subprocess.run or requests.get with the thread.
LoopEnterChain(r, o) ==
    /\ thread = 0
    /\ runs[r].pc = "await_downloading"
    /\ \E ok \in BOOLEAN : \E b \in {"in_process", "in_http"} :
         IF o = "ok"
         THEN /\ runs' = [runs EXCEPT ![r].pc = b, ![r].download_dir = clock]
              /\ thread' = r
              /\ UNCHANGED << dirs, files >>
         ELSE /\ LoopFails(r, o, ok)
              /\ thread' = thread
    /\ UNCHANGED clock
    /\ UNCHANGED LoopFrame

LoopFile(r, b) ==
    [dir |-> runs[r].temp_dir, sec |-> runs[r].download_dir, base |-> b,
     run |-> r]

\* Lines 91-107 and 284-300: the downloader process ends; with a file the
\* handler goes on to its next await, without one to the direct fetch.
LoopProcEnds(r) ==
    /\ thread = r
    /\ runs[r].pc = "in_process"
    /\ \E hit \in BOOLEAN :
         IF hit
         THEN /\ files' = files \cup {LoopFile(r, "ytdlp")}
              /\ runs' = [runs EXCEPT ![r].pc = "await_send"]
              /\ thread' = 0
         ELSE /\ files' = files
              /\ runs' = [runs EXCEPT ![r].pc = "in_http"]
              /\ thread' = r
    /\ UNCHANGED << clock, dirs >>
    /\ UNCHANGED LoopFrame

\* Lines 214-236 and 300-312: the direct fetch ends; the handler goes on to
\* the await of its send or of the failure edit.
LoopHttpEnds(r) ==
    /\ thread = r
    /\ runs[r].pc = "in_http"
    /\ \E hit \in BOOLEAN :
         IF hit
         THEN /\ files' = files \cup {LoopFile(r, "direct")}
              /\ runs' = [runs EXCEPT ![r].pc = "await_send"]
         ELSE /\ files' = files
              /\ runs' = [runs EXCEPT ![r].pc = "await_fail_msg"]
    /\ thread' = 0
    /\ UNCHANGED << clock, dirs >>
    /\ UNCHANGED LoopFrame

\* Lines 607-632 and 655-660: the awaits of the delivery return and the
\* workspace is removed, or one of them fails.
LoopSent(r, o) ==
    /\ thread = 0
    /\ runs[r].pc = "await_send"
    /\ \E ok \in BOOLEAN :
         IF o = "ok" THEN LoopEnd(r, ok) ELSE LoopFails(r, o, ok)
    /\ UNCHANGED << thread, clock >>
    /\ UNCHANGED LoopFrame

\* Lines 648-660: the failure edit ends and the finally clause runs.
LoopFailShown(r, o) ==
    /\ thread = 0
    /\ runs[r].pc = "await_fail_msg"
    /\ \E ok \in BOOLEAN : LoopEnd(r, ok)
    /\ UNCHANGED << thread, clock >>
    /\ UNCHANGED LoopFrame

\* time.time() moves on to the next second.
Tick ==
    /\ clock < MaxClock
    /\ clock' = clock + 1
    /\ UNCHANGED << thread, dirs, runs, files >>
    /\ UNCHANGED LoopFrame

\* The steps the handler invocation r takes.
RunStep(r) ==
    \/ LoopReceive(r)
    \/ LoopProcEnds(r)
    \/ LoopHttpEnds(r)
    \/ \E o \in AwaitOutcomes :
         \/ LoopAnalyzed(r, o)
         \/ LoopEnterChain(r, o)
         \/ LoopSent(r, o)
         \/ LoopFailShown(r, o)

NextLoop ==
    \/ Tick
    \/ \E r \in 1..NumRuns : RunStep(r)

SpecLoop == InitLoop /\ [][NextLoop]_vars

(***************************************************************************)
(* Properties                                                              *)
(***************************************************************************)
Terminal == pc \in {"returned", "raised", "cancelled"}
Opened == ws # "none"
Completed == \E k \in 1..Len(status) : status[k].kind = "completed"

Finished(b) == \E k \in 1..Len(attempts) : attempts[k].name = b
Invoked(b) == b \in inProgress \/ Finished(b)
FailedS(b) ==
    \E k \in 1..Len(attempts) :
        attempts[k].name = b /\ ~Truthy(attempts[k].result)
Idx(b) == CHOOSE k \in 1..Len(Strategies) : Strategies[k] = b
Specialized == {"ytdlp", "youtubedl", "instaloader"}
EnhancedTags == {"youtube", "instagram", "tiktok"}
CeilDiv(a, b) == (a + b - 1) \div b

\* C1: when a run that opened a workspace has ended, however it ended, the
\* workspace tree is gone.
C1_WorkspaceRemovedAtEnd == (Terminal /\ Opened) => ws = "removed"

\* C2: when a run that opened a workspace has ended, cleanup_all has been
\* called exactly once for it.
C2_DestroyExactlyOnce == (Terminal /\ Opened) => cleanupCalls = 1

\* C3: an attempt that returned a file is the last attempt of the run, and
\* no strategy is running after it.
C3_ShortCircuit ==
    \A k \in 1..Len(attempts) :
        Truthy(attempts[k].result) => (k = Len(attempts) /\ inProgress = {})

C3_Witness ==
    /\ pc = "c_check"
    /\ Len(attempts) = 2
    /\ attempts[2].name = "youtubedl"
    /\ Truthy(attempts[2].result)

\* C4: the chain hands a file to the handler only when the file exists and
\* is not empty, and raises exhaustion only when every applicable strategy
\* was attempted and none returned an existing, non-empty file.
C4_NonEmptyOrExhausted ==
    /\ pc \in {"await_split_msg", "await_single_msg"}
         => (Exists(files, downloaded_file) /\ downloaded_file.len > 0)
    /\ exc = "AllMethodsFailed"
         => /\ Finished("direct")
            /\ get_platform_type(url) # "other"
                 => (Finished("ytdlp") /\ Finished("youtubedl"))
            /\ get_platform_type(url) = "instagram" => Finished("instaloader")
            /\ get_platform_type(url) \in EnhancedTags => Finished("enhanced")
            /\ \A k \in 1..Len(attempts) :
                 ~(Truthy(attempts[k].result) /\ attempts[k].result.len > 0)

OnlyDirect ==
    /\ inProgress \subseteq {"direct"}
    /\ \A k \in 1..Len(attempts) : attempts[k].name = "direct"
    /\ pc = "c_check" => Len(attempts) = 1

\* C5 as claimed: for a URL tagged `other` the chain runs the plain direct
\* fetch and nothing else.
C5_OtherOnlyDirect ==
    (pc # "idle" /\ get_platform_type(url) = "other") => OnlyDirect

\* C5 as amended: for a URL whose host holds no name of is_video_platform's
\* table the chain runs the plain direct fetch and nothing else.
C5_NonPlatformOnlyDirect ==
    (pc # "idle" /\ ~is_video_platform(url)) => OnlyDirect

C5_Witness ==
    /\ pc = "c_check"
    /\ ~is_video_platform(url)
    /\ Len(attempts) = 1
    /\ attempts[1].name = "direct"

\* C6: instaloader is invoked exactly when yt-dlp and youtube-dl both
\* failed and the tag is `instagram`.
C6_InstaloaderIffInstagram ==
    /\ Invoked("instaloader")
         => /\ get_platform_type(url) = "instagram"
            /\ FailedS("ytdlp") /\ FailedS("youtubedl")
    /\ ( /\ pc # "c_insta"
         /\ FailedS("ytdlp") /\ FailedS("youtubedl")
         /\ get_platform_type(url) = "instagram" )
         => Invoked("instaloader")

\* The strategies the chain description applies to a URL.
Applicable(b) ==
    CASE b \in {"ytdlp", "youtubedl"} -> get_platform_type(url) # "other"
      [] b = "instaloader" -> get_platform_type(url) = "instagram"
      [] b = "enhanced" -> get_platform_type(url) \in EnhancedTags
      [] OTHER -> TRUE

AllSpecializedFailed ==
    /\ FailedS("ytdlp") /\ FailedS("youtubedl")
    /\ \A k \in 1..Len(attempts) :
         attempts[k].name \in Specialized => ~Truthy(attempts[k].result)
    /\ inProgress \cap Specialized = {}

\* C7: at most one strategy runs at a time; the attempts follow the order
\* yt-dlp, youtube-dl, instaloader, enhanced fetch, direct fetch; a strategy
\* runs only when every earlier applicable one has finished without a file;
\* and the enhanced fetch runs exactly when the tag is youtube, instagram or
\* tiktok and every specialized downloader failed.
C7_SequentialFixedOrder ==
    /\ Cardinality(inProgress) <= 1
    /\ \A k \in 1..Len(attempts) :
         /\ k < Len(attempts)
              => /\ Idx(attempts[k].name) < Idx(attempts[k + 1].name)
                 /\ ~Truthy(attempts[k].result)
         /\ \A b \in inProgress :
              /\ Idx(attempts[k].name) < Idx(b)
              /\ ~Truthy(attempts[k].result)
    /\ \A b \in {Strategies[k] : k \in 1..Len(Strategies)} :
         Invoked(b) =>
           \A a \in {Strategies[k] : k \in 1..Len(Strategies)} :
             (Idx(a) < Idx(b) /\ Applicable(a)) => FailedS(a)
    /\ Invoked("enhanced")
         => (get_platform_type(url) \in EnhancedTags /\ AllSpecializedFailed)
    /\ ( /\ pc \in {"run_enhanced", "c_m3", "run_direct", "c_check"}
         /\ get_platform_type(url) \in EnhancedTags
         /\ AllSpecializedFailed )
         => Invoked("enhanced")

C7_Witness ==
    /\ pc = "c_check"
    /\ Len(attempts) = 5
    /\ \A k \in 1..5 : attempts[k].name = Strategies[k]
    /\ ~Truthy(attempts[5].result)

SplitFailed == file_chunks = << downloaded_file >>

C10_PartCountAndSizes ==
    (pc = "split_returned" /\ sp.f.len > MAX_FILE_SIZE /\ sp.st.status = "done")
        => LET S == sp.f.len
               C == sp.chunk_size
               n == Len(sp.ret)
           IN  /\ n = CeilDiv(S, C)
               /\ \A k \in 1..n :
                    /\ sp.ret[k].part = k - 1
                    /\ sp.ret[k].off = (k - 1) * C
                    /\ sp.ret[k].len > 0
                    /\ k < n => sp.ret[k].len = C
                    /\ k = n => sp.ret[k].len = (IF S % C = 0 THEN C ELSE S % C)

C10_Witness ==
    /\ pc = "split_returned"
    /\ sp.st.status = "done"
    /\ sp.chunk_size = CHUNK_SIZE
    /\ sp.f.len = MaxSizeMiB * MiB + MiB \div 2
    /\ Len(sp.ret) = MaxSizeMiB + 1

\* The parts of s, laid end to end, are bytes 0 to n of the source: the
\* first starts at byte 0, each starts where the one before it ended, and
\* the last ends at byte n.
Reassembles(s, n) ==
    IF s = <<>> THEN n = 0
    ELSE /\ s[1].off = 0
         /\ \A k \in 1..Len(s) : s[k].len >= 0
         /\ \A k \in 1..(Len(s) - 1) : s[k + 1].off = s[k].off + s[k].len
         /\ s[Len(s)].off + s[Len(s)].len = n

\* C11: the parts split_large_file returns, concatenated in the order
\* returned, are the bytes of the file from the first to the last, each once.
C11_RoundTrip ==
    pc = "split_returned" => Reassembles(sp.ret, sp.f.len)

C11_Witness ==
    /\ pc = "split_returned"
    /\ sp.st.status = "done"
    /\ sp.f.len = MaxSizeMiB * MiB + MiB \div 2
    /\ sp.chunk_size = 7 * MiB + 1
    /\ Len(sp.ret) > 2

IsPart(f) == f.part >= 0

\* C12: when a pass of the split fails, the call returns the original file
\* alone and none of the part files written before the failure is left.
C12_NoPartialState ==
    (pc = "split_returned" /\ sp.st.status = "raised")
        => /\ sp.ret = << sp.f >>
           /\ ~ \E f \in files : IsPart(f)

\* C13: a file at or under the ceiling, the ceiling itself included, comes
\* back from split_large_file as the single element of the list with no
\* part file written, and the handler sends it whole, once, outside the
\* part loop.
C13_UnderCeilingUnsplit ==
    (Truthy(downloaded_file) /\ downloaded_file.len <= MAX_FILE_SIZE) =>
        /\ \A c \in {CHUNK_SIZE, SplitChunkArg} : \A fa \in SplitFailPoints :
             split_large_file(downloaded_file, c, fa)
                 = [chunks |-> << downloaded_file >>, created |-> {}]
        /\ file_chunks = <<>>
        /\ ~ \E f \in files : IsPart(f)
        /\ \A k \in 1..Len(status) :
             status[k].kind \notin {"splitting", "sending_part"}
        /\ sendLog \in {<<>>, << downloaded_file >>}
        /\ sent \in {<<>>, << downloaded_file >>}
        /\ Completed => sent = << downloaded_file >>

C13_Witness ==
    /\ Completed
    /\ downloaded_file.len = MAX_FILE_SIZE
    /\ sent = << downloaded_file >>

IsPrefix(a, b) == Len(a) <= Len(b) /\ \A k \in 1..Len(a) : a[k] = b[k]

\* C14: the parts are handed to reply_video in the order of the list, part
\* index increasing from 0, none twice, and a part is handed over only when
\* the transport has taken every part before it; a completed run has sent
\* them all.
C14_SequentialOrdered ==
    file_chunks # <<>> =>
        /\ IsPrefix(sendLog, file_chunks)
        /\ IsPrefix(sent, sendLog)
        /\ Len(sendLog) <= Len(sent) + 1
        /\ \A j, k \in 1..Len(file_chunks) :
             j # k => file_chunks[j] # file_chunks[k]
        /\ ~SplitFailed => \A k \in 1..Len(sendLog) : sendLog[k].part = k - 1
        /\ Completed => sent = file_chunks

C14_Witness ==
    /\ Completed
    /\ Len(sent) = 3
    /\ sent[3].part = 2

\* C15: once the transport has rejected a part, no further part is handed
\* over or sent, the run does not complete, and when it has ended
\* cleanup_all has been called on the workspace.
C15_RejectionStopsDelivery ==
    /\ [](exc = "SendRejected" =>
            /\ pc \in {"await_fail_msg", "returned", "raised", "cancelled"}
            /\ Len(sendLog) = Len(sent) + 1
            /\ Terminal => /\ ~Completed
                           /\ cleanupCalls >= 1
                           /\ ws \in {"removed", "partial"})
    /\ [][exc = "SendRejected"
            => (sendLog' = sendLog /\ sent' = sent /\ exc' = exc)]_vars

C15_Witness ==
    /\ exc = "SendRejected"
    /\ Terminal
    /\ Len(file_chunks) = 3
    /\ Len(sent) = 1
    /\ ws = "removed"

ChainPcs ==
    {"c_m1", "run_ytdlp", "c_ydl", "run_youtubedl", "c_insta",
     "run_instaloader", "c_m2", "run_enhanced", "c_m3", "run_direct",
     "c_check", "probe_hung"}

\* The orchestrator state the handler is in at each of its positions.
RunState ==
    CASE pc \in {"idle", "await_invalid_reply", "await_analyzing"} -> "Received"
      [] pc = "await_downloading" -> "Classifying"
      [] pc \in ChainPcs -> "Acquiring"
      [] pc \in {"await_split_msg", "await_single_msg"} -> "Preparing"
      [] pc \in {"await_part_msg", "await_part_send", "await_sleep",
                 "await_single_send", "await_completed_msg"} -> "Delivering"
      [] pc = "returned" /\ Completed -> "Completed"
      [] OTHER -> "Failed"

StateOrder ==
    << "Received", "Classifying", "Acquiring", "Preparing", "Delivering",
       "Completed" >>

StepAllowed(a, b) ==
    \/ a = b
    \/ \E k \in 1..(Len(StateOrder) - 1) :
         a = StateOrder[k] /\ b = StateOrder[k + 1]
    \/ a \notin {"Completed", "Failed"} /\ b = "Failed"

\* C16: a run goes from each state only to the next one of Received,
\* Classifying, Acquiring, Preparing, Delivering, Completed, or from a state
\* that is not terminal to Failed; it is in Preparing or beyond only when a
\* strategy returned a file; and when the chain is exhausted it is Failed
\* with nothing handed to the transport.
C16_StateMachine ==
    /\ [][StepAllowed(RunState, RunState')]_vars
    /\ [](RunState \in {"Preparing", "Delivering", "Completed"}
            => \E k \in 1..Len(attempts) : Truthy(attempts[k].result))
    /\ [](exc = "AllMethodsFailed" => (RunState = "Failed" /\ sendLog = <<>>))

C16_Witness ==
    /\ exc = "AllMethodsFailed"
    /\ pc = "returned"
    /\ Len(attempts) = 5

FailKinds == {"failed", "failed_platform", "failed_network"}

\* C17: a failure text shown to the user is one of the fixed category texts
\* and carries no text of the exception that caused it.
C17_CoarseFailureText ==
    \A k \in 1..Len(status) :
        status[k].kind \in FailKinds => status[k].detail = "none"

\* C18: no failure of a single strategy leaves the chain: while the chain
\* runs no exception is pending, a strategy that returned nothing is
\* followed by a further step of the chain unless it is the plain direct
\* fetch, and the handler sees a failure only when the direct fetch, the
\* last resort, has failed too.
C18_StrategyFailureContained ==
    /\ pc \in ChainPcs => exc = "none"
    /\ \A k \in 1..Len(attempts) :
         ~Truthy(attempts[k].result) =>
            \/ k < Len(attempts)
            \/ inProgress # {}
            \/ pc \in ChainPcs \ {"c_check"}
            \/ attempts[k].name = "direct"
    /\ exc = "AllMethodsFailed" =>
            /\ FailedS("direct")
            /\ \A k \in 1..Len(attempts) : ~Truthy(attempts[k].result)

C18_Witness ==
    /\ pc = "await_single_send"
    /\ Len(attempts) = 4
    /\ attempts[1].exit = "probe_missing"
    /\ attempts[2].exit = "timeout"
    /\ attempts[3].exit = "http_error"
    /\ attempts[4].name = "direct"
    /\ Truthy(attempts[4].result)

\* C19: cleanup_all never lets an exception out, whether the tree is
\* intact, partly removed or gone; called on a tree that is gone it changes
\* nothing; and when rmtree fails the failure is logged and the tree stays.
C19_CleanupIdempotent ==
    /\ [](exc = "none")
    /\ [][cleanupCalls' = cleanupCalls + 1 =>
            LET r == status'[Len(status')].detail IN
              /\ ws = "removed"
                   => (ws' = ws /\ files' = files /\ r = "absent")
              /\ r \in {"absent", "removed", "logged"}
              /\ r = "removed" => (ws' = "removed" /\ files' = {})
              /\ r = "logged" => (ws' = "partial" /\ files' = files)]_vars

C19_Witness ==
    /\ Len(status) = 3
    /\ status[1].detail = "logged"
    /\ status[2].detail = "removed"
    /\ status[3].detail = "absent"
    /\ ws = "removed"

\* The host of the URL, lowered, holds an entry of row k of the table.
Matches(u, k) ==
    \E e \in PlatformTable[k].entries : Contains(netloc(lower(u)), e)

HostOnly(u, t) ==
    \A sc \in ClassifySchemes : \A tl \in ClassifyTails :
        get_platform_type(<<sc>> \o netloc(u) \o tl) = t

ExhaustedText(k) ==
    /\ exc = "AllMethodsFailed"
    /\ k \in 1..Len(status)
    /\ status[k].kind \in FailKinds

HttpErrors == {"conn_error", "http_error"}

\* C23: when the chain is exhausted with the HTTP fetch ended by a
\* connection or HTTP-status error and no process involved, the failure
\* text is the network one; when a downloader process exited non-zero and
\* the fetch did not end that way, it is the platform-blocked one.
C23_CategoryByCause ==
    \A k \in 1..Len(status) : ExhaustedText(k) =>
        /\ (/\ \A j \in 1..Len(attempts) :
                 attempts[j].name = "direct" /\ attempts[j].exit \in HttpErrors)
             => status[k].kind = "failed_network"
        /\ (/\ \E j \in 1..Len(attempts) : attempts[j].exit = "nonzero"
            /\ \A j \in 1..Len(attempts) : attempts[j].exit \notin HttpErrors)
             => status[k].kind = "failed_platform"

\* C24: every payload handed to reply_video is of at most MAX_FILE_SIZE
\* bytes.
C24_PayloadUnderCeiling ==
    \A k \in 1..Len(sendLog) : sendLog[k].len <= MAX_FILE_SIZE

\* C25: a file a downloader process returned was written by that process,
\* not left behind by a strategy that ran before it.
C25_ReturnedFileIsOwn ==
    \A k \in 1..Len(attempts) :
        (attempts[k].name \in Specialized /\ Truthy(attempts[k].result))
            => attempts[k].result.base = attempts[k].name

\* Every part of the run has been sent.
AllSent ==
    /\ sent # <<>>
    /\ sent = (IF file_chunks # <<>> THEN file_chunks ELSE << downloaded_file >>)

\* C27: once every part has been sent, no failure text is shown to the
\* user, whatever becomes of the "Download completed" edit.
C27_CompletedAfterLastPart ==
    AllSent => \A k \in 1..Len(status) : status[k].kind \notin FailKinds

\* C28: a message that starts with neither 'http://' nor 'https://' gets the
\* one reply of line 533 and nothing else: no workspace, no strategy, no
\* file, no payload.
C28_InvalidRejected ==
    (url # <<>> /\ url[1] \notin {"http://", "https://"}) =>
        /\ pc \in {"await_invalid_reply", "returned", "raised", "cancelled"}
        /\ ws = "none"
        /\ cleanupCalls = 0
        /\ files = {}
        /\ attempts = <<>> /\ inProgress = {}
        /\ sendLog = <<>> /\ sent = <<>>
        /\ status \in {<<>>, << [kind |-> "invalid_url", detail |-> "none"] >>}
        /\ pc = "returned" => Len(status) = 1

C28_Witness ==
    /\ pc = "returned"
    /\ url = <<"hello">>
    /\ Len(status) = 1

\* C26: every run ends, completed or failed; no downloader tool that never
\* exits keeps it waiting for good.
C26_EventuallyEnds == <>Terminal

Waiting(r) == runs[r].pc \in {"in_process", "in_http"}
Live(r) == runs[r].pc \notin {"queued", "done"}

\* C21: while a run waits on a downloader process or an HTTP stream, the
\* handler of another run that has not ended can take a step.
C21_WaitYields ==
    \A a, b \in 1..Len(runs) :
        (a # b /\ Waiting(a) /\ runs[b].pc # "done") => ENABLED RunStep(b)

\* C22: two runs that are live at once have different workspaces, and a
\* file leaves the disk only in the step that ends the run that wrote it.
C22_DistinctWorkspaces ==
    /\ [](\A a, b \in 1..Len(runs) :
            (a # b /\ Live(a) /\ Live(b))
                => runs[a].temp_dir # runs[b].temp_dir)
    /\ [][\A f \in files \ files' :
            runs[f.run].pc # "done" /\ runs'[f.run].pc = "done"]_vars

C22_Witness ==
    /\ Len(runs) > 1
    /\ runs[1].pc = "done"
    /\ runs[1].temp_dir \notin dirs
    /\ Live(2)
    /\ runs[2].download_dir = runs[1].download_dir
    /\ \E f \in files : f.run = 2

====
